---- MODULE Spec2Model ----
(***************************************************************************)
(* Model of core/unifi/types.go: the API path resolver Unifi.path and the  *)
(* tolerant scalar decoders FlexInt.UnmarshalJSON / FlexBool.UnmarshalJSON.*)
(*                                                                         *)
(* A Go string / []byte is a sequence of one-character strings.  A float64 *)
(* is a record: finite values carry their sign and their decimal digits.   *)
(***************************************************************************)
EXTENDS Integers, Sequences, FiniteSets, TLC

VARIABLES
    New,        \* Config.New of the Unifi handle
    pathArg,    \* argument of the latest Unifi.path call
    pathRet,    \* its return value
    pathOp,     \* "init", "call" (fresh argument) or "again" (fed its own result)
    kind,       \* type of the json.Unmarshaler being decoded into: "FlexInt" or "FlexBool"
    f,          \* the receiver [Val, Txt]
    fPrev,      \* the receiver as it was before the latest UnmarshalJSON call
    arg,        \* bytes handed to the latest UnmarshalJSON call, or NoBytes
    err,        \* error returned by the latest UnmarshalJSON call
    lastOk      \* bytes of the most recent call that returned nil, or NoBytes

vars == <<New, pathArg, pathRet, pathOp, kind, f, fPrev, arg, err, lastOk>>

pathVars == <<New, pathArg, pathRet, pathOp>>
recvVars == <<kind, f, fPrev, arg, err, lastOk>>

(***************************************************************************)
(* Bounds of the model.                                                    *)
(***************************************************************************)
\* path arguments are made of at most this many path fragments
MaxPathParts == 2
\* a FlexInt input body is made of at most this many atoms
MaxParts == 2
\* a FlexBool input body is made of at most this many atoms
MaxBoolParts == 1
\* at most this many double quotes are put on each side of a FlexBool body
MaxQuotes == 2
\* atoms per input body when one receiver is decoded into repeatedly
MaxReuseParts == 1

(***************************************************************************)
(* Strings.                                                                *)
(***************************************************************************)
\* all concatenations of at most n members of parts
RECURSIVE Joins(_, _)
Joins(parts, n) ==
    IF n = 0 THEN {<< >>}
    ELSE LET shorter == Joins(parts, n - 1)
         IN  shorter \cup {s \o p : s \in shorter, p \in parts}

\* strings.HasPrefix: len(s) >= len(prefix) && s[:len(prefix)] == prefix
HasPrefix(s, prefix) ==
    /\ Len(s) >= Len(prefix)
    /\ SubSeq(s, 1, Len(prefix)) = prefix

(***************************************************************************)
(* Unifi.path                                                              *)
(***************************************************************************)
APIStatusPath   == <<"/", "s", "t", "a", "t", "u", "s">>
APILoginPath    == <<"/", "a", "p", "i", "/", "l", "o", "g", "i", "n">>
APILoginPathNew == <<"/", "a", "p", "i", "/", "a", "u", "t", "h", "/", "l", "o", "g", "i", "n">>
APIPrefixNew    == <<"/", "p", "r", "o", "x", "y", "/", "n", "e", "t", "w", "o", "r", "k">>

\* faulty variant: the legacy login path is prefixed like any other path
path_noLoginSpecialCase(isNew, p) ==
    IF isNew
    THEN IF ~HasPrefix(p, APIPrefixNew) /\ p # APILoginPathNew
         THEN APIPrefixNew \o p
         ELSE p
    ELSE p

\* faulty variant: the firmware flag is ignored
path_ignoresFlag(isNew, p) ==
    IF p = APILoginPath THEN APILoginPathNew
    ELSE IF ~HasPrefix(p, APIPrefixNew) /\ p # APILoginPathNew
         THEN APIPrefixNew \o p
         ELSE p

\* faulty variant: the prefix test is inverted
path_invertedPrefixTest(isNew, p) ==
    IF isNew
    THEN IF p = APILoginPath THEN APILoginPathNew
         ELSE IF HasPrefix(p, APIPrefixNew) /\ p # APILoginPathNew
              THEN APIPrefixNew \o p
              ELSE p
    ELSE p

\* faulty variant: the prefix is put on a path that already carries it
path_alwaysPrefixes(isNew, p) ==
    IF isNew
    THEN IF p = APILoginPath THEN APILoginPathNew
         ELSE IF p # APILoginPathNew THEN APIPrefixNew \o p
         ELSE p
    ELSE p

\* func (u *Unifi) path(path string) string, isNew being u.New
path(isNew, p) ==
    IF isNew
    THEN IF p = APILoginPath THEN APILoginPathNew
         ELSE IF ~HasPrefix(p, APIPrefixNew) /\ p # APILoginPathNew
              THEN APIPrefixNew \o p
              ELSE p
    ELSE p

\* the fragments path arguments are built from
PathParts ==
    { APIStatusPath, APILoginPath, APILoginPathNew, APIPrefixNew,
      <<"/", "p", "r", "o", "x", "y">>, <<"/", "n", "e", "t", "w", "o", "r", "k">>,
      <<"/", "a", "p", "i">>, <<"s">> }

Paths == Joins(PathParts, MaxPathParts)

NoBytes == <<"<none>">>

PathInit ==
    /\ New \in BOOLEAN
    /\ pathArg = NoBytes
    /\ pathRet = NoBytes
    /\ pathOp = "init"

\* u.path(p) for a fresh argument
CallPath ==
    \E p \in Paths :
        /\ pathArg' = p
        /\ pathRet' = path(New, p)
        /\ pathOp' = "call"
        /\ UNCHANGED New

\* u.path(u.path(p)): the previous result is resolved again
CallPathAgain ==
    /\ pathOp # "init"
    /\ pathArg' = pathRet
    /\ pathRet' = path(New, pathRet)
    /\ pathOp' = "again"
    /\ UNCHANGED New

(***************************************************************************)
(* Runes and case folding (strings.EqualFold, strings.Trim).               *)
(* "U+212A" is the Kelvin sign and "U+017F" the long s: the two runes      *)
(* outside ASCII that Unicode simple case folding joins to an ASCII letter.*)
(***************************************************************************)
LowerLetters ==
    <<"a", "b", "c", "d", "e", "f", "g", "h", "i", "j", "k", "l", "m",
      "n", "o", "p", "q", "r", "s", "t", "u", "v", "w", "x", "y", "z">>
UpperLetters ==
    <<"A", "B", "C", "D", "E", "F", "G", "H", "I", "J", "K", "L", "M",
      "N", "O", "P", "Q", "R", "S", "T", "U", "V", "W", "X", "Y", "Z">>

\* position of rune c in the alphabet letters, or 0
LetterIndex(letters, c) ==
    IF \E i \in 1..26 : letters[i] = c
    THEN CHOOSE i \in 1..26 : letters[i] = c
    ELSE 0

\* unicode.ToUpper on the runes of the model
ToUpper(c) ==
    IF LetterIndex(LowerLetters, c) # 0 THEN UpperLetters[LetterIndex(LowerLetters, c)]
    ELSE IF c = "U+017F" THEN "S"
    ELSE c

\* the least rune of c's simple-folding orbit that is a lower-case ASCII
\* letter when the orbit has one: two runes fold together iff they agree here
FoldRune(c) ==
    IF LetterIndex(UpperLetters, c) # 0 THEN LowerLetters[LetterIndex(UpperLetters, c)]
    ELSE IF c = "U+212A" THEN "k"
    ELSE IF c = "U+017F" THEN "s"
    ELSE c

\* strings.EqualFold(s, t): equal under Unicode simple case folding
EqualFold(s, t) ==
    /\ Len(s) = Len(t)
    /\ \A i \in 1..Len(s) : FoldRune(s[i]) = FoldRune(t[i])

\* strings.TrimLeft with a one-rune cutset
RECURSIVE TrimLeft(_, _)
TrimLeft(s, c) ==
    IF s # << >> /\ Head(s) = c THEN TrimLeft(Tail(s), c) ELSE s

\* strings.TrimRight with a one-rune cutset
RECURSIVE TrimRight(_, _)
TrimRight(s, c) ==
    IF s # << >> /\ s[Len(s)] = c THEN TrimRight(SubSeq(s, 1, Len(s) - 1), c) ELSE s

\* strings.Trim(s, cutset) with a one-rune cutset: every leading and every
\* trailing occurrence of the rune is removed
Trim(s, c) == TrimRight(TrimLeft(s, c), c)

(***************************************************************************)
(* Errors.                                                                 *)
(***************************************************************************)
\* a nil error
NilErr == [type |-> "nil", bytes |-> << >>]
\* json.Unmarshal's *json.SyntaxError
JsonSyntaxErr == [type |-> "json.SyntaxError", bytes |-> << >>]
\* json.Unmarshal's *json.UnmarshalTypeError for a number float64 cannot hold
JsonNumberErr == [type |-> "json.UnmarshalTypeError", bytes |-> << >>]
\* errors.Wrapf(errCannotUnmarshalFlexInt, "%v", b)
CannotUnmarshalFlexInt(b) == [type |-> "errCannotUnmarshalFlexInt", bytes |-> b]

(***************************************************************************)
(* FlexBool                                                                *)
(***************************************************************************)
\* the zero value of FlexBool
FlexBoolZero == [Val |-> FALSE, Txt |-> << >>]

\* the bare "1" and the words compared with strings.EqualFold
TruthyWords ==
    { <<"t", "r", "u", "e">>, <<"y", "e", "s">>, <<"t">>, <<"a", "r", "m", "e", "d">>,
      <<"a", "c", "t", "i", "v", "e">>, <<"e", "n", "a", "b", "l", "e", "d">>,
      <<"r", "e", "a", "d", "y">>, <<"u", "p">>, <<"o", "k">> }

\* faulty variant: the words are compared with == instead of EqualFold
FlexBoolVal_caseSensitive(txt) ==
    txt = <<"1">> \/ txt \in TruthyWords

\* the expression assigned to f.Val
FlexBoolVal(txt) ==
    txt = <<"1">> \/ \E w \in TruthyWords : EqualFold(txt, w)

\* func (f *FlexBool) UnmarshalJSON(b []byte) error: the receiver after the
\* call and the error returned
FlexBoolUnmarshalJSON(recv, b) ==
    LET txt == Trim(b, "\"")
    IN  [f |-> [Val |-> FlexBoolVal(txt), Txt |-> txt], err |-> NilErr]

\* the atoms FlexBool input bodies are built from
BoolAtoms ==
    TruthyWords \cup
    { <<"1">>, <<"0">>, <<"f", "a", "l", "s", "e">>, <<"n", "o">>,
      <<"d", "i", "s", "a", "r", "m", "e", "d">>, <<"i", "n", "a", "c", "t", "i", "v", "e">>,
      <<"d", "i", "s", "a", "b", "l", "e", "d">>, <<"n", "u", "l", "l">>,
      <<"u", "p", "\\", "\"">>, <<"o", "\"", "k">>, <<" ">> }

\* s in one of the letter cases the controller may use
Recase(s, shape) ==
    [i \in 1..Len(s) |->
        CASE shape = "lower"  -> s[i]
          [] shape = "upper"  -> ToUpper(s[i])
          [] shape = "title"  -> IF i = 1 THEN ToUpper(s[i]) ELSE s[i]
          [] shape = "mixed"  -> IF i % 2 = 0 THEN ToUpper(s[i]) ELSE s[i]
          [] shape = "exotic" -> IF s[i] = "k" THEN "U+212A"
                                 ELSE IF s[i] = "s" THEN "U+017F" ELSE s[i]]

Shapes == {"lower", "upper", "title", "mixed", "exotic"}

\* n double quotes
Quotes(n) == [i \in 1..n |-> "\""]

\* the raw bytes FlexBool.UnmarshalJSON is called with: a body in some
\* letter case between w[1] opening and w[2] closing quotes
BoolInputsOf(atoms, shapes, wraps, parts) ==
    { Quotes(w[1]) \o Recase(body, shape) \o Quotes(w[2]) :
        w \in wraps, shape \in shapes, body \in Joins(atoms, parts) }

BoolInputs == BoolInputsOf(BoolAtoms, Shapes, (0..MaxQuotes) \X (0..MaxQuotes), MaxBoolParts)

(***************************************************************************)
(* float64 and strconv.                                                    *)
(*                                                                         *)
(* A float64 is named by its shortest round-trip decimal, the digits       *)
(* strconv.FormatFloat(v, 'e', -1, 64) prints: a finite value is           *)
(* [k |-> "fin", neg, digs, exp], the value (-1)^neg * 0.digs * 10^exp     *)
(* with digs free of leading and trailing zeros (digs empty and exp 0 for  *)
(* zero).  Two records are equal exactly when the float64 values are.      *)
(* Conversions are exact: a numeral is rounded to the nearest float64,     *)
(* ties to even, with arbitrary-precision decimal arithmetic, as           *)
(* strconv's decimal.floatBits and roundShortest do.  strconv cuts a       *)
(* mantissa at 800 digits; the numerals of the model are shorter.          *)
(***************************************************************************)
DigitChars == <<"0", "1", "2", "3", "4", "5", "6", "7", "8", "9">>
Digits == {DigitChars[i] : i \in 1..10}
DigitVal(c) == (CHOOSE i \in 1..10 : DigitChars[i] = c) - 1

HexChars == DigitChars \o <<"a", "b", "c", "d", "e", "f">>

Zero   == [k |-> "fin", neg |-> FALSE, digs |-> << >>, exp |-> 0]
Inf(n) == [k |-> "inf", neg |-> n, digs |-> << >>, exp |-> 0]
NaN    == [k |-> "nan", neg |-> FALSE, digs |-> << >>, exp |-> 0]
SignedZero(n) == [k |-> "fin", neg |-> n, digs |-> << >>, exp |-> 0]

IsDigit(s, i) == i <= Len(s) /\ s[i] \in Digits

\* index after the longest run of digits of s that starts at i
RECURSIVE DigitRun(_, _)
DigitRun(s, i) == IF IsDigit(s, i) THEN DigitRun(s, i + 1) ELSE i

\* lower-case of an ASCII letter, other runes unchanged
AsciiLower(c) ==
    IF LetterIndex(UpperLetters, c) # 0 THEN LowerLetters[LetterIndex(UpperLetters, c)] ELSE c

\* c is a hexadecimal digit, in either case
IsHex(c) == \E i \in 1..16 : HexChars[i] = AsciiLower(c)
HexVal(c) == (CHOOSE i \in 1..16 : HexChars[i] = AsciiLower(c)) - 1

(***************************************************************************)
(* Arbitrary-precision decimals for the conversions: [l, pt] is the number *)
(* whose limbs l, least significant first, are its digits in base 10^9,    *)
(* the lowest pt of them after the decimal point.  The top limb is not 0   *)
(* and, when pt > 0, neither is the bottom one.                            *)
(***************************************************************************)
Base == 1000000000
HalfBase == 500000000
Pow10 == <<1, 10, 100, 1000, 10000, 100000, 1000000, 10000000, 100000000>>
\* the powers of two that divide Base
Pow2 == <<1, 2, 4, 8, 16, 32, 64, 128, 256, 512>>
MaxShift == 9

Limb(x, i) == IF i >= 1 /\ i <= Len(x.l) THEN x.l[i] ELSE 0

\* l without a zero limb at its top and, pt being positive, at its bottom
Trimmed(l, pt) ==
    [l  |-> SubSeq(l, IF pt > 0 /\ l[1] = 0 /\ Len(l) > 1 THEN 2 ELSE 1,
                      IF Len(l) > 1 /\ l[Len(l)] = 0 THEN Len(l) - 1 ELSE Len(l)),
     pt |-> IF pt > 0 /\ l[1] = 0 /\ Len(l) > 1 THEN pt - 1 ELSE pt]

\* strconv's leftShift(x, j), j <= MaxShift: x * 2^j.  Base is a multiple
\* of 2^j, so a limb a becomes (a % m) * 2^j with m = Base / 2^j and hands
\* a \div m, which is below 2^j, to the limb above: no carry runs further
LeftShift(x, j) ==
    Trimmed([i \in 1..(Len(x.l) + 1) |->
                (IF i <= Len(x.l) THEN (x.l[i] % (Base \div Pow2[j + 1])) * Pow2[j + 1] ELSE 0)
                + (IF i > 1 THEN x.l[i - 1] \div (Base \div Pow2[j + 1]) ELSE 0)],
            x.pt)

\* strconv's rightShift(x, j), j <= MaxShift: x / 2^j.  A limb a becomes
\* a \div 2^j and hands (a % 2^j) * (Base / 2^j) to the limb below
RightShift(x, j) ==
    Trimmed([i \in 1..(Len(x.l) + 1) |->
                (IF i > 1 THEN x.l[i - 1] \div Pow2[j + 1] ELSE 0)
                + (IF i <= Len(x.l) THEN (x.l[i] % Pow2[j + 1]) * (Base \div Pow2[j + 1]) ELSE 0)],
            x.pt + 1)

Double(x) == LeftShift(x, 1)
Halve(x) == RightShift(x, 1)

\* the decimals and the numbers of bits they are shifted by
Decimals == [l : Seq(0..(Base - 1)), pt : Nat]

\* decimal.Shift: x * 2^k, at most MaxShift bits at a time.  A shift by
\* more bits is two shifts by half as many, the first done before the second
ShiftBy[x \in Decimals, k \in Int] ==
    IF k > MaxShift \/ k < 0 - MaxShift THEN ShiftBy[ShiftBy[x, k \div 2], k - (k \div 2)]
    ELSE IF k > 0 THEN LeftShift(x, k)
    ELSE IF k < 0 THEN RightShift(x, 0 - k)
    ELSE x

Shift(x, k) == ShiftBy[x, k]

\* the digit of weight 10^w in the decimal 0.digs * 10^dp
DigitOfWeight(digs, dp, w) ==
    IF dp - w >= 1 /\ dp - w <= Len(digs) THEN DigitVal(digs[dp - w]) ELSE 0

\* the limb of weight Base^j of the decimal 0.digs * 10^dp
LimbOfWeight(digs, dp, j) ==
      DigitOfWeight(digs, dp, 9 * j)
    + DigitOfWeight(digs, dp, 9 * j + 1) * 10
    + DigitOfWeight(digs, dp, 9 * j + 2) * 100
    + DigitOfWeight(digs, dp, 9 * j + 3) * 1000
    + DigitOfWeight(digs, dp, 9 * j + 4) * 10000
    + DigitOfWeight(digs, dp, 9 * j + 5) * 100000
    + DigitOfWeight(digs, dp, 9 * j + 6) * 1000000
    + DigitOfWeight(digs, dp, 9 * j + 7) * 10000000
    + DigitOfWeight(digs, dp, 9 * j + 8) * 100000000

\* decimal.Assign / decimal.set: the number 0.digs * 10^dp, digs starting
\* and ending with a digit other than 0
DecimalOf(digs, dp) ==
    [l  |-> [i \in 1..(((dp - 1) \div 9) + 1 - (IF Len(digs) > dp THEN (dp - Len(digs)) \div 9 ELSE 0)) |->
                LimbOfWeight(digs, dp, i - 1 + (IF Len(digs) > dp THEN (dp - Len(digs)) \div 9 ELSE 0))],
     pt |-> IF Len(digs) > dp THEN 0 - ((dp - Len(digs)) \div 9) ELSE 0]

\* the k-th decimal digit of x counted from the top of its top limb
DigitFromTop(x, k) ==
    DigitChars[((x.l[Len(x.l) - ((k - 1) \div 9)] \div Pow10[9 - ((k - 1) % 9)]) % 10) + 1]

\* index of the first digit of d from i on that is not 0
FirstNonZero(d, i) ==
    CHOOSE k \in i..Len(d) : d[k] # "0" /\ \A j \in i..(k - 1) : d[j] = "0"

\* index of the last digit of d up to i that is not 0
LastNonZero(d, i) ==
    CHOOSE k \in 1..i : d[k] # "0" /\ \A j \in (k + 1)..i : d[j] = "0"

\* the digits d, the decimal point after the first ip of them, as the
\* decimal [digs, dp] free of leading and trailing zeros
DigitsTrimmed(d, ip) ==
    [digs |-> SubSeq(d, FirstNonZero(d, 1), LastNonZero(d, Len(d))),
     dp   |-> ip - (FirstNonZero(d, 1) - 1)]

\* the digits and decimal point of a positive x
DigitsOf(x) ==
    DigitsTrimmed([k \in 1..(9 * Len(x.l)) |-> DigitFromTop(x, k)], 9 * (Len(x.l) - x.pt))

(***************************************************************************)
(* Decimal to binary: decimal.floatBits.  A float64 is mant * 2^exp with   *)
(* mant = [hi, lo] standing for hi * 10^9 + lo, 2^52 <= mant < 2^53 unless *)
(* exp = -1074 (denormal), and exp <= 971.                                 *)
(***************************************************************************)
MinExp == -1074
MaxExp == 971

\* the integer part of x, x being below 10^18
IntegerPart(x) == [hi |-> Limb(x, x.pt + 2), lo |-> Limb(x, x.pt + 1)]

\* x >= 2^53 = 9007199 254740992
AtLeast2p53(x) ==
    \/ Len(x.l) - x.pt > 2
    \/ /\ Len(x.l) - x.pt = 2
       /\ \/ Limb(x, x.pt + 2) > 9007199
          \/ Limb(x, x.pt + 2) = 9007199 /\ Limb(x, x.pt + 1) >= 254740992

\* x < 2^52 = 4503599 627370496
Below2p52(x) ==
    \/ Len(x.l) - x.pt < 2
    \/ /\ Len(x.l) - x.pt = 2
       /\ \/ Limb(x, x.pt + 2) < 4503599
          \/ Limb(x, x.pt + 2) = 4503599 /\ Limb(x, x.pt + 1) < 627370496

\* x scaled by powers of two until 2^52 <= x < 2^53 or the exponent is the
\* least one; the value stays x * 2^e
RECURSIVE Normalized(_, _)
Normalized(x, e) ==
    IF AtLeast2p53(x) THEN Normalized(Halve(x), e + 1)
    ELSE IF Below2p52(x) /\ e > MinExp THEN Normalized(Double(x), e - 1)
    ELSE [x |-> x, e |-> e]

\* the fraction of x against one half: -1 below, 0 equal, 1 above
FractionAgainstHalf(x) ==
    IF Limb(x, x.pt) > HalfBase THEN 1
    ELSE IF Limb(x, x.pt) < HalfBase THEN -1
    ELSE IF \E i \in 1..(x.pt - 1) : Limb(x, i) # 0 THEN 1
    ELSE 0

\* mant + 1
Succ(m) == IF m.lo = Base - 1 THEN [hi |-> m.hi + 1, lo |-> 0] ELSE [hi |-> m.hi, lo |-> m.lo + 1]
\* mant - 1
Pred(m) == IF m.lo = 0 THEN [hi |-> m.hi - 1, lo |-> Base - 1] ELSE [hi |-> m.hi, lo |-> m.lo - 1]

TwoTo52 == [hi |-> 4503599, lo |-> 627370496]
TwoTo53 == [hi |-> 9007199, lo |-> 254740992]

\* decimal.RoundedInteger: x to the nearest integer, halves to the even one
RoundedInteger(x, half) ==
    IF half > 0 \/ (half = 0 /\ IntegerPart(x).lo % 2 = 1)
    THEN Succ(IntegerPart(x))
    ELSE IntegerPart(x)

\* the float64 mant * 2^e, or the overflow; rounding may have added a bit
FloatBits(mant, e) ==
    IF mant = TwoTo53
    THEN [mant |-> TwoTo52, exp |-> e + 1, ovf |-> e + 1 > MaxExp]
    ELSE [mant |-> mant, exp |-> e, ovf |-> e > MaxExp]

FloatBitsOfNormalized(n) ==
    FloatBits(RoundedInteger(n.x, FractionAgainstHalf(n.x)), n.e)

\* the float64 nearest to x * 2^e0, x positive; guess is an estimate of the
\* binary exponent of the result
NearestFloat(x, e0, guess) ==
    FloatBitsOfNormalized(
        Normalized(Shift(x, e0 - (IF guess < MinExp THEN MinExp ELSE guess)),
                   IF guess < MinExp THEN MinExp ELSE guess))

(***************************************************************************)
(* Binary to shortest decimal: strconv's roundShortest.                    *)
(***************************************************************************)
\* the integer mant as a decimal
DecimalOfMant(m) == IF m.hi = 0 THEN [l |-> <<m.lo>>, pt |-> 0] ELSE [l |-> <<m.lo, m.hi>>, pt |-> 0]

\* 2 * x + 1 for an integer x
DoublePlusOne(x) == [Double(x) EXCEPT !.l[1] = @ + 1]

\* decimal.RoundDown(nd)
RoundDown(a, nd) ==
    IF nd < 0 \/ nd >= Len(a.digs) THEN a
    ELSE IF nd = 0 \/ \A i \in 1..nd : a.digs[i] = "0" THEN [digs |-> << >>, dp |-> 0]
    ELSE [digs |-> SubSeq(a.digs, 1, LastNonZero(a.digs, nd)), dp |-> a.dp]

\* decimal.RoundUp(nd)
RoundUp(a, nd) ==
    IF nd < 0 \/ nd >= Len(a.digs) THEN a
    ELSE IF \A i \in 1..nd : a.digs[i] = "9" THEN [digs |-> <<"1">>, dp |-> a.dp + 1]
    ELSE LET i == CHOOSE i \in 1..nd : a.digs[i] # "9" /\ \A j \in (i + 1)..nd : a.digs[j] = "9"
         IN  [digs |-> SubSeq(a.digs, 1, i - 1) \o <<DigitChars[DigitVal(a.digs[i]) + 2]>>, dp |-> a.dp]

\* strconv's shouldRoundUp(a, nd): exactly halfway rounds to even
shouldRoundUp(a, nd) ==
    IF nd < 0 \/ nd >= Len(a.digs) THEN FALSE
    ELSE IF a.digs[nd + 1] = "5" /\ nd + 1 = Len(a.digs)
         THEN nd > 0 /\ DigitVal(a.digs[nd]) % 2 # 0
    ELSE DigitVal(a.digs[nd + 1]) >= 5

\* decimal.Round(nd)
Round(a, nd) ==
    IF nd < 0 \/ nd >= Len(a.digs) THEN a
    ELSE IF shouldRoundUp(a, nd) THEN RoundUp(a, nd)
    ELSE RoundDown(a, nd)

\* the digit of index i (from 0) of the decimal a, 0 outside its digits
DigitAt(a, i) == IF i >= 0 /\ i < Len(a.digs) THEN DigitVal(a.digs[i + 1]) ELSE 0

\* roundShortest's upperdelta after the digits m of d and u of upper
UpperDelta(upperdelta, m, u) ==
    IF upperdelta = 0 /\ m + 1 < u THEN 2
    ELSE IF upperdelta = 0 /\ m # u THEN 1
    ELSE IF upperdelta = 1 /\ (m # 9 \/ u # 0) THEN 2
    ELSE upperdelta

\* roundShortest's okdown at digit ui of upper: d is told apart from lower
okdown(d, lower, upper, inclusive, ui) ==
    \/ DigitAt(lower, ui - upper.dp + lower.dp) # DigitAt(d, ui - upper.dp + d.dp)
    \/ inclusive /\ ui - upper.dp + lower.dp + 1 = Len(lower.digs)

\* roundShortest's okup at digit ui of upper: d is told apart from upper
okup(upper, inclusive, ui, upperdelta) ==
    /\ upperdelta > 0
    /\ inclusive \/ upperdelta > 1 \/ ui + 1 < Len(upper.digs)

\* roundShortest's switch on okdown and okup: d cut after digit mi
roundShortestCut(d, mi, down, up) ==
    IF down /\ up THEN Round(d, mi + 1)
    ELSE IF down THEN RoundDown(d, mi + 1)
    ELSE RoundUp(d, mi + 1)

\* roundShortest's upperdelta once digit ui of upper is seen
UpperDeltaAt(d, upper, ui, upperdelta) ==
    UpperDelta(upperdelta, DigitAt(d, ui - upper.dp + d.dp), DigitAt(upper, ui))

\* one turn of the loop of roundShortest, at digit ui of upper: d is cut
\* when it is told apart from lower or upper.  st.d is the decimal,
\* st.done whether the loop has returned
roundShortestStep(d, lower, upper, inclusive, ui, st) ==
    IF \/ okdown(d, lower, upper, inclusive, ui)
       \/ okup(upper, inclusive, ui, UpperDeltaAt(d, upper, ui, st.upperdelta))
    THEN [done |-> TRUE, upperdelta |-> st.upperdelta,
          d |-> roundShortestCut(d, ui - upper.dp + d.dp,
                    okdown(d, lower, upper, inclusive, ui),
                    okup(upper, inclusive, ui, UpperDeltaAt(d, upper, ui, st.upperdelta)))]
    ELSE [st EXCEPT !.upperdelta = UpperDeltaAt(d, upper, ui, @)]

\* where the digits lo..hi are split: d is told apart from its bounds within
\* its first digits, so that a long range is gone through from its start
TurnsAtOnce == 4
SplitOf(lo, hi) == IF hi - lo >= 2 * TurnsAtOnce THEN lo + TurnsAtOnce - 1 ELSE (lo + hi) \div 2

\* the turns of the loop of roundShortest at the digits lo..hi of upper in
\* order, none after the return
RECURSIVE roundShortestLoop(_, _, _, _, _, _, _)
roundShortestLoop(d, lower, upper, inclusive, lo, hi, st) ==
    IF lo > hi \/ st.done THEN st
    ELSE IF lo = hi THEN roundShortestStep(d, lower, upper, inclusive, lo, st)
    ELSE roundShortestLoop(d, lower, upper, inclusive, SplitOf(lo, hi) + 1, hi,
            roundShortestLoop(d, lower, upper, inclusive, lo, SplitOf(lo, hi), st))

\* the loop of roundShortest: ui from 0 on while ui - upper.dp + d.dp is
\* an index of d
roundShortestFrom(d, lower, upper, inclusive) ==
    roundShortestLoop(d, lower, upper, inclusive, 0, Len(d.digs) - 1 + upper.dp - d.dp,
                      [done |-> FALSE, upperdelta |-> 0, d |-> d]).d

\* the lower bound of the decimals that round to mant * 2^e: halfway to the
\* float64 below, which is nearer when mant is a power of two
LowerBound(mant, e) ==
    IF mant # TwoTo52 \/ e = MinExp
    THEN Shift(DoublePlusOne(DecimalOfMant(Pred(mant))), e - 1)
    ELSE Shift(DoublePlusOne(DoublePlusOne(DecimalOfMant(Pred(mant)))), e - 2)

\* the upper bound: halfway to the float64 above
UpperBound(mant, e) == Shift(DoublePlusOne(DecimalOfMant(mant)), e - 1)

\* strconv's roundShortest(d, mant, exp, flt), d being mant * 2^e exactly
roundShortest(d, mant, e) ==
    IF e > MinExp /\ 332 * (d.dp - Len(d.digs)) >= 100 * e THEN d
    ELSE \* the two bounds are worked out first, then the loop runs on them
         CHOOSE r \in {roundShortestFrom(d, DigitsOf(b[1]), DigitsOf(b[2]), mant.lo % 2 = 0) :
                           b \in {<<LowerBound(mant, e), UpperBound(mant, e)>>}} : TRUE

\* the shortest decimal that rounds to the float64 mant * 2^e, mant positive
ShortestDecimal(mant, e) ==
    CHOOSE r \in {roundShortest(DigitsOf(x), mant, e) :
                      x \in {Shift(DecimalOfMant(mant), e)}} : TRUE

\* the finite float64 of sign neg whose shortest decimal is sd
FloatOfDecimal(neg, sd) == [k |-> "fin", neg |-> neg, digs |-> sd.digs, exp |-> sd.dp]

\* the float64 of sign neg with the bits b, and the error of the conversion
FloatOfBits(neg, b) ==
    IF b.ovf THEN [val |-> Inf(neg), err |-> "range"]
    ELSE IF b.mant = [hi |-> 0, lo |-> 0] THEN [val |-> SignedZero(neg), err |-> "nil"]
    ELSE [val |-> FloatOfDecimal(neg, ShortestDecimal(b.mant, b.exp)), err |-> "nil"]

(***************************************************************************)
(* strconv.ParseFloat                                                      *)
(***************************************************************************)
\* strconv's commonPrefixLenIgnoreCase(s, prefix), prefix in lower case
RECURSIVE CommonPrefixLenIgnoreCase(_, _)
CommonPrefixLenIgnoreCase(s, prefix) ==
    IF s = << >> \/ prefix = << >> \/ AsciiLower(Head(s)) # Head(prefix) THEN 0
    ELSE 1 + CommonPrefixLenIgnoreCase(Tail(s), Tail(prefix))

\* strconv's special(s): the infinities and NaN; n is the length consumed
special(s) ==
    LET no == [ok |-> FALSE, val |-> Zero, n |-> 0]
    IN
    IF s = << >> THEN no
    ELSE
      LET signed == Head(s) \in {"+", "-"}
          rest   == IF signed THEN Tail(s) ELSE s
          nsign  == IF signed THEN 1 ELSE 0
      IN
      IF signed \/ AsciiLower(Head(s)) = "i"
      THEN LET n0 == CommonPrefixLenIgnoreCase(rest, <<"i", "n", "f", "i", "n", "i", "t", "y">>)
               n  == IF 3 < n0 /\ n0 < 8 THEN 3 ELSE n0
           IN  IF n = 3 \/ n = 8
               THEN [ok |-> TRUE, val |-> Inf(Head(s) = "-"), n |-> nsign + n]
               ELSE no
      ELSE IF AsciiLower(Head(s)) = "n"
      THEN IF CommonPrefixLenIgnoreCase(s, <<"n", "a", "n">>) = 3
           THEN [ok |-> TRUE, val |-> NaN, n |-> 3]
           ELSE no
      ELSE no

\* strconv's underscoreOK(s) from index i on: an underscore stands between
\* two digits, the base prefix counting as a digit.  saw is "0" after a
\* digit, "_" after an underscore, "!" after anything else
RECURSIVE underscoreOKFrom(_, _, _, _)
underscoreOKFrom(s, i, hex, saw) ==
    IF i > Len(s) THEN saw # "_"
    ELSE IF s[i] \in Digits \/ (hex /\ IsHex(s[i])) THEN underscoreOKFrom(s, i + 1, hex, "0")
    ELSE IF s[i] = "_"
         THEN IF saw # "0" THEN FALSE ELSE underscoreOKFrom(s, i + 1, hex, "_")
    ELSE IF saw = "_" THEN FALSE
    ELSE underscoreOKFrom(s, i + 1, hex, "!")

\* strconv's underscoreOK(s), i0 being the index after the optional sign
underscoreOK(s, i0) ==
    IF i0 + 1 <= Len(s) /\ s[i0] = "0" /\ AsciiLower(s[i0 + 1]) \in {"b", "o", "x"}
    THEN underscoreOKFrom(s, i0 + 2, AsciiLower(s[i0 + 1]) = "x", "0")
    ELSE underscoreOKFrom(s, i0, FALSE, "^")

\* one turn of the mantissa loop of readFloat, at index i.  st.digs are the
\* digits read after the leading zeros, st.dp the place of the point among
\* them; st.i is 0 until the loop breaks and the index of the break then
mantissaStep(s, i, hex, st) ==
    IF s[i] = "_" THEN [st EXCEPT !.underscores = TRUE]
    ELSE IF s[i] = "."
         THEN IF st.sawdot THEN [st EXCEPT !.i = i]
              ELSE [st EXCEPT !.sawdot = TRUE, !.dp = Len(st.digs)]
    ELSE IF s[i] \in Digits
         THEN IF s[i] = "0" /\ st.digs = << >>
              THEN [st EXCEPT !.sawdigits = TRUE, !.dp = @ - 1]
              ELSE [st EXCEPT !.sawdigits = TRUE, !.digs = Append(@, s[i])]
    ELSE IF hex /\ IsHex(s[i])
         THEN [st EXCEPT !.sawdigits = TRUE, !.digs = Append(@, AsciiLower(s[i]))]
    ELSE [st EXCEPT !.i = i]

\* the turns of the mantissa loop at the indices lo..hi in order, none
\* after the break; the range is halved so that a long numeral is read in
\* few nested steps
RECURSIVE mantissaLoop(_, _, _, _, _)
mantissaLoop(s, lo, hi, hex, st) ==
    IF lo > hi \/ st.i # 0 THEN st
    ELSE IF lo = hi THEN mantissaStep(s, lo, hex, st)
    ELSE mantissaLoop(s, ((lo + hi) \div 2) + 1, hi, hex,
                      mantissaLoop(s, lo, (lo + hi) \div 2, hex, st))

\* the loop left at st.i, or at the end of s
mantissaEnd(s, st) == IF st.i # 0 THEN st ELSE [st EXCEPT !.i = Len(s) + 1]

\* the mantissa loop of readFloat from index i on
readMantissa(s, i, hex, st) == mantissaEnd(s, mantissaLoop(s, i, Len(s), hex, st))

\* the exponent loop of readFloat from index i on: digits and underscores,
\* if e < 10000 { e = e*10 + digit }
RECURSIVE readExponent(_, _, _)
readExponent(s, i, st) ==
    IF i <= Len(s) /\ s[i] = "_" THEN readExponent(s, i + 1, [st EXCEPT !.underscores = TRUE])
    ELSE IF IsDigit(s, i)
         THEN readExponent(s, i + 1, [st EXCEPT !.e = IF @ < 10000 THEN @ * 10 + DigitVal(s[i]) ELSE @])
    ELSE [st EXCEPT !.i = i]

\* readFloat once the mantissa is read up to m.i: the optional exponent,
\* which moves the point, and the check of the underscores
readFloatAfterMantissa(s, i0, neg, hex, m, signAt, x) ==
    LET fail == [ok |-> FALSE, n |-> 0, neg |-> FALSE, hex |-> FALSE, digs |-> << >>, dp |-> 0]
        dp0  == (IF m.sawdot THEN m.dp ELSE Len(m.digs)) * (IF hex THEN 4 ELSE 1)
        done(dp, under, n) ==
            IF under /\ ~underscoreOK(SubSeq(s, 1, n), i0) THEN fail
            ELSE [ok |-> TRUE, n |-> n, neg |-> neg, hex |-> hex, digs |-> m.digs, dp |-> dp]
    IN
    IF ~m.sawdigits THEN fail
    ELSE IF m.i <= Len(s) /\ AsciiLower(s[m.i]) = (IF hex THEN "p" ELSE "e")
         THEN IF m.i + 1 > Len(s) THEN fail
              ELSE IF ~IsDigit(s, signAt) THEN fail
              ELSE done(dp0 + (IF s[m.i + 1] = "-" THEN 0 - x.e ELSE x.e),
                        x.underscores, x.i - 1)
    ELSE IF hex THEN fail
    ELSE done(dp0, m.underscores, m.i - 1)

\* readFloat once the sign is read: i0 is the index after it
readFloatAfterSign(s, i0, neg, hex, m) ==
    readFloatAfterMantissa(s, i0, neg, hex, m,
        IF m.i + 1 <= Len(s) /\ s[m.i + 1] \in {"+", "-"} THEN m.i + 2 ELSE m.i + 1,
        readExponent(s, IF m.i + 1 <= Len(s) /\ s[m.i + 1] \in {"+", "-"} THEN m.i + 2 ELSE m.i + 1,
                     [i |-> 0, e |-> 0, underscores |-> m.underscores]))

\* readFloat with the sign and the base prefix read
readFloatBody(s, i0, neg, hex) ==
    readFloatAfterSign(s, i0, neg, hex,
        readMantissa(s, IF hex THEN i0 + 2 ELSE i0, hex,
                     [i |-> 0, sawdot |-> FALSE, sawdigits |-> FALSE, dp |-> 0,
                      digs |-> << >>, underscores |-> FALSE]))

\* strconv's readFloat(s): optional sign, optional base prefix 0x, mantissa
\* digits with an optional point, exponent (e for decimal; p, mandatory,
\* for hexadecimal), underscores between digits.  n is the length consumed;
\* the numeral read is 0.digs * 10^dp, or 0.digs (base 16) * 2^dp when hex
readFloatFrom(s, i0) ==
    readFloatBody(s, i0, s[1] = "-",
                  i0 + 2 < Len(s) + 1 /\ s[i0] = "0" /\ AsciiLower(s[i0 + 1]) = "x")

readFloat(s) ==
    IF s = << >> \/ (Len(s) = 1 /\ Head(s) \in {"+", "-"})
    THEN [ok |-> FALSE, n |-> 0, neg |-> FALSE, hex |-> FALSE, digs |-> << >>, dp |-> 0]
    ELSE readFloatFrom(s, IF Head(s) \in {"+", "-"} THEN 2 ELSE 1)

\* digits d without the zeros at their end
StripTrailingZeros(d) ==
    IF \A i \in 1..Len(d) : d[i] = "0" THEN << >> ELSE SubSeq(d, 1, LastNonZero(d, Len(d)))

\* strconv's atof64 for a decimal numeral: the float64 nearest to
\* (-1)^neg * 0.digs * 10^dp, and whether it is out of range.  strconv tries
\* atof64exact and eiselLemire64 before decimal.floatBits; all three return
\* the nearest float64.  A decimal of at most 15 digits between 10^-307 and
\* 10^308 is the shortest decimal of the float64 nearest to it
atofDecimal(neg, digs, dp) ==
    IF digs = << >> THEN [val |-> SignedZero(neg), err |-> "nil"]
    ELSE IF dp > 310 THEN [val |-> Inf(neg), err |-> "range"]
    ELSE IF dp < -330 THEN [val |-> SignedZero(neg), err |-> "nil"]
    ELSE IF Len(digs) <= 15 /\ dp >= -306 /\ dp <= 308
         THEN [val |-> [k |-> "fin", neg |-> neg, digs |-> digs, exp |-> dp], err |-> "nil"]
    ELSE FloatOfBits(neg, NearestFloat(DecimalOf(digs, dp), 0, ((dp * 3322) \div 1000) - 53))

\* 16 * x + the hexadecimal digit c, x an integer: 16 * x ends in a limb
\* that is a multiple of 16 and below Base, so that adding c carries nothing
AddHexDigit(x, c) == [LeftShift(x, 4) EXCEPT !.l[1] = @ + HexVal(c)]

\* the hexadecimal digits, both cases
HexDigits == {HexChars[i] : i \in 1..16}

\* the integer whose hexadecimal digits are acc's followed by digs[lo..hi];
\* the range is halved so that a long mantissa is read in few nested steps
HexMantissaOf[digs \in Seq(HexDigits), lo \in Nat, hi \in Nat, acc \in Decimals] ==
    IF lo > hi THEN acc
    ELSE IF lo = hi THEN AddHexDigit(acc, digs[lo])
    ELSE HexMantissaOf[digs, ((lo + hi) \div 2) + 1, hi,
                       HexMantissaOf[digs, lo, (lo + hi) \div 2, acc]]

\* the integer whose hexadecimal digits are digs
HexMantissa(digs) == HexMantissaOf[digs, 1, Len(digs), [l |-> <<0>>, pt |-> 0]]

\* strconv's atofHex: the float64 nearest to (-1)^neg * 0.digs (base 16) * 2^dp.
\* A numeral below 2^-1076 is zero and one from 2^1024 on overflows, whatever
\* its digits
atofHex(neg, digs, dp) ==
    IF digs = << >> THEN [val |-> SignedZero(neg), err |-> "nil"]
    ELSE IF dp - 4 >= 1024 THEN [val |-> Inf(neg), err |-> "range"]
    ELSE IF dp <= -1076 THEN [val |-> SignedZero(neg), err |-> "nil"]
    ELSE FloatOfBits(neg, NearestFloat(HexMantissa(digs),
                                       dp - 4 * Len(digs), dp - 53))

\* strconv.ParseFloat(s, 64): the value and the error ("nil", "syntax" for
\* ErrSyntax, "range" for ErrRange).  A syntax error returns 0, a range
\* error returns the infinity of the numeral's sign.
ParseFloatOf(s, sp, rf) ==
    IF sp.ok
    THEN IF sp.n = Len(s) THEN [val |-> sp.val, err |-> "nil"] ELSE [val |-> Zero, err |-> "syntax"]
    ELSE IF ~rf.ok \/ rf.n # Len(s) THEN [val |-> Zero, err |-> "syntax"]
    ELSE IF rf.hex THEN atofHex(rf.neg, rf.digs, rf.dp)
    ELSE atofDecimal(rf.neg, StripTrailingZeros(rf.digs),
                     IF StripTrailingZeros(rf.digs) = << >> THEN 0 ELSE rf.dp)

ParseFloat(s) == ParseFloatOf(s, special(s), readFloat(s))

\* n zeros
Zeros(n) == [i \in 1..n |-> "0"]

\* strconv.FormatFloat(v, 'f', -1, 64): the shortest decimal that parses
\* back to v, without exponent
FormatFloat(v) ==
    IF v.k = "nan" THEN <<"N", "a", "N">>
    ELSE IF v.k = "inf" THEN <<IF v.neg THEN "-" ELSE "+", "I", "n", "f">>
    ELSE LET sign == IF v.neg THEN <<"-">> ELSE << >>
             n    == Len(v.digs)
         IN  IF n = 0 THEN sign \o <<"0">>
             ELSE IF v.exp <= 0 THEN sign \o <<"0", ".">> \o Zeros(0 - v.exp) \o v.digs
             ELSE IF v.exp >= n THEN sign \o v.digs \o Zeros(v.exp - n)
             ELSE sign \o SubSeq(v.digs, 1, v.exp) \o <<".">> \o SubSeq(v.digs, v.exp + 1, n)

(***************************************************************************)
(* encoding/json: json.Unmarshal(b, &unk) with unk an interface{}.         *)
(*                                                                         *)
(* A rune is a one-character string when it is printable ASCII (the        *)
(* backquote apart), "\t", "\n", "\r" or "\f", and "U+" with its code      *)
(* point in hexadecimal otherwise.  "0xFF" is a byte that is not UTF-8.    *)
(***************************************************************************)
\* the runes U+0020 to U+007E in order, U+0060 by its code point
Printable ==
    <<" ", "!", "\"", "#", "$", "%", "&", "'", "(", ")", "*", "+", ",", "-", ".", "/",
      "0", "1", "2", "3", "4", "5", "6", "7", "8", "9", ":", ";", "<", "=", ">", "?",
      "@", "A", "B", "C", "D", "E", "F", "G", "H", "I", "J", "K", "L", "M", "N", "O",
      "P", "Q", "R", "S", "T", "U", "V", "W", "X", "Y", "Z", "[", "\\", "]", "^", "_",
      "U+0060", "a", "b", "c", "d", "e", "f", "g", "h", "i", "j", "k", "l", "m", "n", "o",
      "p", "q", "r", "s", "t", "u", "v", "w", "x", "y", "z", "{", "|", "}", "~">>

UpperHexChars == DigitChars \o <<"A", "B", "C", "D", "E", "F">>

\* the code point n in hexadecimal, on four digits at least
RECURSIVE HexOf(_, _)
HexOf(n, width) ==
    IF n = 0 /\ width <= 0 THEN ""
    ELSE HexOf(n \div 16, width - 1) \o UpperHexChars[(n % 16) + 1]

\* the rune of code point n
RuneOf(n) ==
    IF n >= 32 /\ n <= 126 THEN Printable[n - 31]
    ELSE IF n = 9 THEN "\t"
    ELSE IF n = 10 THEN "\n"
    ELSE IF n = 12 THEN "\f"
    ELSE IF n = 13 THEN "\r"
    ELSE "U+" \o HexOf(n, 4)

\* the runes below U+0020, which a string literal may not hold
ControlRunes == {RuneOf(n) : n \in 0..31}

\* bytes that are no UTF-8 encoding
InvalidUTF8 == {"0xFF"}

ReplacementChar == 65533

IsSpace(c) == c \in {" ", "\t", "\n", "\r"}

RECURSIVE SkipSpace(_, _)
SkipSpace(s, i) == IF i <= Len(s) /\ IsSpace(s[i]) THEN SkipSpace(s, i + 1) ELSE i

\* s[i .. i+3] are four hexadecimal digits
FourHex(s, i) == i + 3 <= Len(s) /\ \A k \in 0..3 : IsHex(s[i + k])

\* index after the string literal whose opening quote is at i - 1, or 0:
\* the scanner's stateInString, stateInStringEsc and stateInStringEscU
RECURSIVE StringEnd(_, _)
StringEnd(s, i) ==
    IF i > Len(s) THEN 0
    ELSE IF s[i] = "\"" THEN i + 1
    ELSE IF s[i] = "\\"
         THEN IF i + 1 > Len(s) THEN 0
              ELSE IF s[i + 1] \in {"b", "f", "n", "r", "t", "\\", "/", "\""} THEN StringEnd(s, i + 2)
              ELSE IF s[i + 1] = "u" /\ FourHex(s, i + 2) THEN StringEnd(s, i + 6)
              ELSE 0
    ELSE IF s[i] \in ControlRunes THEN 0
    ELSE StringEnd(s, i + 1)

\* json's getu4(s[i:]): the code unit of the escape \uXXXX at i, or -1;
\* the literal's content ends at j
getu4(s, i, j) ==
    IF i + 5 <= j /\ s[i] = "\\" /\ s[i + 1] = "u" /\ FourHex(s, i + 2)
    THEN 4096 * HexVal(s[i + 2]) + 256 * HexVal(s[i + 3]) + 16 * HexVal(s[i + 4]) + HexVal(s[i + 5])
    ELSE -1

\* utf16.IsSurrogate(r)
IsSurrogate(r) == r >= 55296 /\ r < 57344

\* utf16.DecodeRune(r1, r2)
DecodeRune(r1, r2) ==
    IF r1 >= 55296 /\ r1 < 56320 /\ r2 >= 56320 /\ r2 < 57344
    THEN (r1 - 55296) * 1024 + (r2 - 56320) + 65536
    ELSE ReplacementChar

\* the rune a one-character escape stands for
EscapeRune(c) ==
    CASE c = "b" -> RuneOf(8)
      [] c = "f" -> RuneOf(12)
      [] c = "n" -> RuneOf(10)
      [] c = "r" -> RuneOf(13)
      [] c = "t" -> RuneOf(9)
      [] OTHER   -> c

\* json's unquote on the content s[i .. j] of a string literal: escapes are
\* decoded, a surrogate pair makes one rune, a lone surrogate and a byte
\* that is not UTF-8 become U+FFFD
RECURSIVE unquote(_, _, _)
unquote(s, i, j) ==
    IF i > j THEN << >>
    ELSE IF s[i] # "\\"
         THEN <<IF s[i] \in InvalidUTF8 THEN RuneOf(ReplacementChar) ELSE s[i]>> \o unquote(s, i + 1, j)
    ELSE IF s[i + 1] # "u" THEN <<EscapeRune(s[i + 1])>> \o unquote(s, i + 2, j)
    ELSE IF ~IsSurrogate(getu4(s, i, j)) THEN <<RuneOf(getu4(s, i, j))>> \o unquote(s, i + 6, j)
    ELSE IF DecodeRune(getu4(s, i, j), getu4(s, i + 6, j)) # ReplacementChar
         THEN <<RuneOf(DecodeRune(getu4(s, i, j), getu4(s, i + 6, j)))>> \o unquote(s, i + 12, j)
    ELSE <<RuneOf(ReplacementChar)>> \o unquote(s, i + 6, j)

\* index after the JSON number that starts at i, or 0:
\* -? (0 | [1-9][0-9]*) (. [0-9]+)? ([eE] [+-]? [0-9]+)?
ScanNumber(s, i) ==
    LET i1 == IF s[i] = "-" THEN i + 1 ELSE i
        i2 == IF IsDigit(s, i1) /\ s[i1] = "0" THEN i1 + 1 ELSE DigitRun(s, i1)
        dot == i2 <= Len(s) /\ s[i2] = "."
        i3 == IF dot THEN DigitRun(s, i2 + 1) ELSE i2
        ex == i3 <= Len(s) /\ s[i3] \in {"e", "E"}
        i4 == IF i3 + 1 <= Len(s) /\ s[i3 + 1] \in {"+", "-"} THEN i3 + 2 ELSE i3 + 1
        i5 == DigitRun(s, i4)
    IN
    IF ~IsDigit(s, i1) THEN 0
    ELSE IF dot /\ ~IsDigit(s, i2 + 1) THEN 0
    ELSE IF ~ex THEN i3
    ELSE IF ~IsDigit(s, i4) THEN 0
    ELSE i5

NoValue == [end |-> 0, range |-> FALSE]

\* the JSON value that starts at i: the index after it (0 when the text is
\* no JSON value) and whether it holds a number float64 cannot represent
RECURSIVE ScanValue(_, _)
RECURSIVE ScanElements(_, _)
RECURSIVE ScanMembers(_, _)
ScanValue(s, i) ==
    IF i > Len(s) THEN NoValue
    ELSE IF s[i] = "\"" THEN [end |-> StringEnd(s, i + 1), range |-> FALSE]
    ELSE IF s[i] = "-" \/ s[i] \in Digits
         THEN LET j == ScanNumber(s, i)
              IN  IF j = 0 THEN NoValue
                  ELSE [end |-> j, range |-> ParseFloat(SubSeq(s, i, j - 1)).err # "nil"]
    ELSE IF HasPrefix(SubSeq(s, i, Len(s)), <<"t", "r", "u", "e">>) THEN [end |-> i + 4, range |-> FALSE]
    ELSE IF HasPrefix(SubSeq(s, i, Len(s)), <<"f", "a", "l", "s", "e">>) THEN [end |-> i + 5, range |-> FALSE]
    ELSE IF HasPrefix(SubSeq(s, i, Len(s)), <<"n", "u", "l", "l">>) THEN [end |-> i + 4, range |-> FALSE]
    ELSE IF s[i] = "["
         THEN LET k == SkipSpace(s, i + 1)
              IN  IF k <= Len(s) /\ s[k] = "]" THEN [end |-> k + 1, range |-> FALSE]
                  ELSE ScanElements(s, k)
    ELSE IF s[i] = "{"
         THEN LET k == SkipSpace(s, i + 1)
              IN  IF k <= Len(s) /\ s[k] = "}" THEN [end |-> k + 1, range |-> FALSE]
                  ELSE ScanMembers(s, k)
    ELSE NoValue

\* the elements of an array from index i on, up to and including the ]
ScanElements(s, i) ==
    LET v == ScanValue(s, i)
        k == SkipSpace(s, v.end)
    IN
    IF v.end = 0 \/ k > Len(s) THEN NoValue
    ELSE IF s[k] = "]" THEN [end |-> k + 1, range |-> v.range]
    ELSE IF s[k] = ","
         THEN LET more == ScanElements(s, SkipSpace(s, k + 1))
              IN  IF more.end = 0 THEN NoValue
                  ELSE [end |-> more.end, range |-> v.range \/ more.range]
    ELSE NoValue

\* the members of an object from index i on, up to and including the }
ScanMembers(s, i) ==
    LET keyEnd == IF i <= Len(s) /\ s[i] = "\"" THEN StringEnd(s, i + 1) ELSE 0
        c      == SkipSpace(s, keyEnd)
        v      == ScanValue(s, SkipSpace(s, c + 1))
        k      == SkipSpace(s, v.end)
    IN
    IF keyEnd = 0 \/ c > Len(s) THEN NoValue
    ELSE IF s[c] # ":" THEN NoValue
    ELSE IF v.end = 0 \/ k > Len(s) THEN NoValue
    ELSE IF s[k] = "}" THEN [end |-> k + 1, range |-> v.range]
    ELSE IF s[k] = ","
         THEN LET more == ScanMembers(s, SkipSpace(s, k + 1))
              IN  IF more.end = 0 THEN NoValue
                  ELSE [end |-> more.end, range |-> v.range \/ more.range]
    ELSE NoValue

\* what json.Unmarshal stores for the scanned value v that starts at b[i]:
\* the error, and on success the dynamic type of unk with its float64 or
\* string value
JsonDecoded(b, i, v) ==
    LET none == [err |-> NilErr, type |-> "nil", num |-> Zero, str |-> << >>]
    IN
    IF v.end = 0 \/ SkipSpace(b, v.end) # Len(b) + 1
    THEN [none EXCEPT !.err = JsonSyntaxErr]
    ELSE IF v.range THEN [none EXCEPT !.err = JsonNumberErr]
    ELSE IF b[i] = "\""
         THEN [none EXCEPT !.type = "string", !.str = unquote(b, i + 1, v.end - 2)]
    ELSE IF b[i] = "-" \/ b[i] \in Digits
         THEN [none EXCEPT !.type = "float64", !.num = ParseFloat(SubSeq(b, i, v.end - 1)).val]
    ELSE IF b[i] = "n" THEN none
    ELSE IF b[i] \in {"t", "f"} THEN [none EXCEPT !.type = "bool"]
    ELSE IF b[i] = "[" THEN [none EXCEPT !.type = "[]interface{}"]
    ELSE [none EXCEPT !.type = "map[string]interface{}"]

\* json.Unmarshal(b, &unk) with unk an interface{}
JsonUnmarshal(b) == JsonDecoded(b, SkipSpace(b, 1), ScanValue(b, SkipSpace(b, 1)))

(***************************************************************************)
(* FlexInt                                                                 *)
(***************************************************************************)
\* the zero value of FlexInt
FlexIntZero == [Val |-> Zero, Txt |-> << >>]

\* faulty variant: a string that does not parse keeps the receiver's Val
FlexIntSwitch_keepsVal(recv, b, unk) ==
    CASE unk.type = "float64" ->
            [f |-> [Val |-> unk.num, Txt |-> FormatFloat(unk.num)], err |-> NilErr]
      [] unk.type = "string" ->
            [f |-> [Val |-> IF ParseFloat(unk.str).err = "nil"
                            THEN ParseFloat(unk.str).val ELSE recv.Val,
                    Txt |-> unk.str],
             err |-> NilErr]
      [] unk.type = "nil" ->
            [f |-> [Val |-> Zero, Txt |-> <<"0">>], err |-> NilErr]
      [] OTHER ->
            [f |-> recv, err |-> CannotUnmarshalFlexInt(b)]

\* switch i := unk.(type): the receiver after the switch and the error returned
FlexIntSwitch(recv, b, unk) ==
    CASE unk.type = "float64" ->
            [f |-> [Val |-> unk.num, Txt |-> FormatFloat(unk.num)], err |-> NilErr]
      [] unk.type = "string" ->
            [f |-> [Val |-> ParseFloat(unk.str).val, Txt |-> unk.str], err |-> NilErr]
      [] unk.type = "nil" ->
            [f |-> [Val |-> Zero, Txt |-> <<"0">>], err |-> NilErr]
      [] OTHER ->
            [f |-> recv, err |-> CannotUnmarshalFlexInt(b)]

\* the body of FlexInt.UnmarshalJSON once json.Unmarshal has returned unk
FlexIntAfterUnmarshal(recv, b, unk) ==
    IF unk.err # NilErr THEN [f |-> recv, err |-> unk.err]
    ELSE FlexIntSwitch(recv, b, unk)

\* func (f *FlexInt) UnmarshalJSON(b []byte) error: the receiver after the
\* call and the error returned
FlexIntUnmarshalJSON(recv, b) == FlexIntAfterUnmarshal(recv, b, JsonUnmarshal(b))

\* the atoms FlexInt input bodies are built from
IntAtoms ==
    { <<"1">>, <<"0">>, <<"-">>, <<"+">>, <<".", "5">>, <<"e", "2">>, <<"e", "9", "9", "9">>,
      <<"e", "-", "9", "9", "9">>, <<"n", "u", "l", "l">>, <<"t", "r", "u", "e">>,
      <<"a", "b", "c">>, <<"n", "a", "n">>, <<"i", "n", "f">>, <<"{", "}">>,
      <<"_">>, <<"\\">> }

\* bodies put between the wraps as they are: numerals in hexadecimal and
\* with underscores, numerals no float64 equals (2^53 + 1, more than 17
\* digits, the halfway points next to the largest and to the least float64),
\* string contents with escapes, a control character, a byte that is not UTF-8
EdgeBodies ==
    { <<"0", "x", "1", "p", "4">>,
      <<"0", "X", ".", "8", "p", "-", "1">>,
      <<"0", "x", "1", "p">>,
      <<"-", "0", "x", "1", ".", "8", "p", "1">>,
      <<"1", "_", "0">>,
      <<"1", "_", "_", "0">>,
      <<"0", "x", "_", "1", "p", "0">>,
      <<"9", "0", "0", "7", "1", "9", "9", "2", "5", "4", "7", "4", "0", "9", "9", "3">>,
      <<"9", "0", "0", "7", "1", "9", "9", "2", "5", "4", "7", "4", "0", "9", "9", "5">>,
      <<"0", ".", "1", "2", "3", "4", "5", "6", "7", "8", "9", "0", "1", "2", "3", "4", "5", "6", "7", "8", "9">>,
      <<"1", "2", "3", "4", "5", "6", "7", "8", "9", "0", "1", "2", "3", "4", "5", "6", "7", "8", "9", "0">>,
      <<"3", "e", "-", "3", "2", "4">>,
      <<"2", "e", "-", "3", "2", "4">>,
      <<"1", ".", "7", "9", "7", "6", "9", "3", "1", "3", "4", "8", "6", "2", "3", "1", "5", "8", "e", "3", "0", "8">>,
      <<"1", ".", "7", "9", "7", "6", "9", "3", "1", "3", "4", "8", "6", "2", "3", "1", "5", "9", "e", "3", "0", "8">>,
      <<"a", "\\", "\"", "b">>,
      <<"\\", "u", "0", "0", "3", "1">>,
      <<"\\", "u", "0", "0", "e", "9">>,
      <<"\\", "u", "d", "8", "3", "d", "\\", "u", "d", "e", "0", "0">>,
      <<"\\", "u", "d", "8", "0", "0">>,
      <<"\\", "u", "1", "2">>,
      <<"\\", "x", "1">>,
      <<"1", "\\", "n">>,
      <<"U+0008">>, <<"1", "0xFF">>, <<"1", "U+212A">> }

\* what is put before and after a body: nothing, the quotes of a string,
\* the brackets of an array, an object around it, spaces, an opening quote alone
IntWraps ==
    { << << >>, << >> >>, << <<"\"">>, <<"\"">> >>, << <<"[">>, <<"]">> >>,
      << <<"{", "\"", "k", "\"", ":">>, <<"}">> >>, << <<" ">>, <<" ">> >>,
      << <<"\"">>, << >> >> }

\* the raw bytes FlexInt.UnmarshalJSON is called with
IntInputsOf(atoms, wraps, parts) ==
    { w[1] \o body \o w[2] : w \in wraps, body \in Joins(atoms, parts) }

IntInputs ==
    IntInputsOf(IntAtoms, IntWraps, MaxParts)
    \cup { w[1] \o body \o w[2] : w \in IntWraps, body \in EdgeBodies }

(***************************************************************************)
(* The receivers and the calls made on them.                               *)
(***************************************************************************)
Kinds == {"FlexInt", "FlexBool"}

ZeroOf(k) == IF k = "FlexInt" THEN FlexIntZero ELSE FlexBoolZero

\* the UnmarshalJSON method of the receiver's type
UnmarshalJSON(k, recv, b) ==
    IF k = "FlexInt" THEN FlexIntUnmarshalJSON(recv, b) ELSE FlexBoolUnmarshalJSON(recv, b)

InputsFor(k) == IF k = "FlexInt" THEN IntInputs ELSE BoolInputs

\* the smaller inputs used when one receiver is decoded into again and again
ReuseIntAtoms == { <<"1">>, <<"-">>, <<"n", "u", "l", "l">>, <<"t", "r", "u", "e">>, <<"a", "b", "c">> }
\* inputs taken as they are: strings with an escape, a number no float64 equals
ReuseEdgeInputs ==
    { <<"\"", "\\", "u", "0", "0", "3", "2", "\"">>,
      <<"\"", "a", "\\", "\"", "b", "\"">>,
      <<"9", "0", "0", "7", "1", "9", "9", "2", "5", "4", "7", "4", "0", "9", "9", "3">> }
ReuseIntWraps == { << << >>, << >> >>, << <<"\"">>, <<"\"">> >>, << <<"[">>, <<"]">> >> }
ReuseBoolAtoms == { <<"1">>, <<"y", "e", "s">>, <<"n", "o">> }
ReuseInputsFor(k) ==
    IF k = "FlexInt"
    THEN IntInputsOf(ReuseIntAtoms, ReuseIntWraps, MaxReuseParts) \cup ReuseEdgeInputs
    ELSE BoolInputsOf(ReuseBoolAtoms, {"lower", "title"}, {<<0, 0>>, <<1, 1>>}, MaxReuseParts)

PathIdle ==
    /\ New = FALSE
    /\ pathArg = NoBytes
    /\ pathRet = NoBytes
    /\ pathOp = "init"

RecvInit ==
    /\ kind \in Kinds
    /\ f = ZeroOf(kind)
    /\ fPrev = ZeroOf(kind)
    /\ arg = NoBytes
    /\ err = NilErr
    /\ lastOk = NoBytes

RecvIdle == RecvInit /\ kind = "FlexInt"

\* the state after f.UnmarshalJSON(b) has left r.f in the receiver and
\* returned r.err
Called(b, r) ==
    /\ f' = r.f
    /\ fPrev' = f
    /\ arg' = b
    /\ err' = r.err
    /\ lastOk' = IF r.err = NilErr THEN b ELSE lastOk
    /\ UNCHANGED kind

\* err := f.UnmarshalJSON(b)
Call(b) == Called(b, UnmarshalJSON(kind, f, b))

\* one field of a response is decoded into a receiver not yet written to
Decode ==
    /\ arg = NoBytes
    /\ \E b \in InputsFor(kind) : Call(b)
    /\ UNCHANGED pathVars

\* var f FlexInt / var f FlexBool: the next field starts from the zero value
Declare ==
    /\ arg # NoBytes
    /\ \E k \in Kinds :
        /\ kind' = k
        /\ f' = ZeroOf(k)
        /\ fPrev' = ZeroOf(k)
    /\ arg' = NoBytes
    /\ err' = NilErr
    /\ lastOk' = NoBytes
    /\ UNCHANGED pathVars

\* the receiver, whatever it holds, is decoded into once more
Reuse ==
    /\ \E b \in ReuseInputsFor(kind) : Call(b)
    /\ UNCHANGED pathVars

Resolve == CallPath /\ UNCHANGED recvVars
ResolveAgain == CallPathAgain /\ UNCHANGED recvVars

\* the path resolver
InitPath == PathInit /\ RecvIdle
NextPath == Resolve \/ ResolveAgain
SpecPath == InitPath /\ [][NextPath]_vars

\* responses decoded field by field, each field into a new receiver
InitDecode == PathIdle /\ RecvInit
NextDecode == Decode \/ Declare
SpecDecode == InitDecode /\ [][NextDecode]_vars

\* one receiver decoded into repeatedly
NextReuse == Reuse
SpecReuse == InitDecode /\ [][NextReuse]_vars

(***************************************************************************)
(* Properties of Unifi.path, checked under SpecPath.                       *)
(***************************************************************************)
\* p is APIPrefixNew followed by anything
StartsWithPrefixNew(p) ==
    \E n \in 0..Len(p) : p = APIPrefixNew \o SubSeq(p, Len(p) - n + 1, Len(p))

\* C1: with New set, a path that is not the legacy login path, does not
\* start with "/proxy/network" and is not the new login path resolves to
\* "/proxy/network" followed by the path.
C1_PrefixPrepended ==
    (/\ pathOp # "init"
     /\ New
     /\ pathArg # APILoginPath
     /\ ~StartsWithPrefixNew(pathArg)
     /\ pathArg # APILoginPathNew)
    => pathRet = APIPrefixNew \o pathArg

C1_Witness ==
    /\ pathOp = "call"
    /\ New
    /\ pathArg = APIStatusPath
    /\ pathRet = APIPrefixNew \o APIStatusPath

\* C2: with New set, the legacy login path resolves to the new login path,
\* which carries no "/proxy/network" prefix.
C2_LoginRewritten ==
    (pathOp # "init" /\ New /\ pathArg = APILoginPath)
    => (pathRet = APILoginPathNew /\ ~StartsWithPrefixNew(pathRet))

C2_Witness ==
    /\ pathOp = "call"
    /\ New
    /\ pathArg = APILoginPath
    /\ pathRet = <<"/", "a", "p", "i", "/", "a", "u", "t", "h", "/", "l", "o", "g", "i", "n">>

\* C3: with New unset, every path resolves to itself, the login paths and
\* the paths that start with "/proxy/network" included.
C3_LegacyUnchanged ==
    (pathOp # "init" /\ ~New) => pathRet = pathArg

C3_Witness ==
    /\ pathOp = "call"
    /\ ~New
    /\ pathArg = APILoginPath
    /\ pathRet = APILoginPath

\* C4: with New set, a path that starts with "/proxy/network" resolves to
\* itself, and resolving the result of a resolution changes nothing.
C4_Idempotent ==
    /\ (pathOp # "init" /\ New /\ StartsWithPrefixNew(pathArg)) => pathRet = pathArg
    /\ pathOp = "again" => pathRet = pathArg

C4_Witness ==
    /\ pathOp = "again"
    /\ New
    /\ pathArg = APIPrefixNew \o APIStatusPath
    /\ pathRet = pathArg

(***************************************************************************)
(* Properties of FlexBool.UnmarshalJSON, checked under SpecDecode.         *)
(***************************************************************************)
\* the vocabulary of truthy tokens
Vocabulary ==
    { <<"1">>, <<"t", "r", "u", "e">>, <<"y", "e", "s">>, <<"t">>, <<"a", "r", "m", "e", "d">>,
      <<"a", "c", "t", "i", "v", "e">>, <<"e", "n", "a", "b", "l", "e", "d">>,
      <<"r", "e", "a", "d", "y">>, <<"u", "p">>, <<"o", "k">> }

\* the runes that are the letter c in some case
CaseForms(c) ==
    {c, ToUpper(c)} \cup (IF c = "k" THEN {"U+212A"} ELSE {}) \cup (IF c = "s" THEN {"U+017F"} ELSE {})

\* txt is the token w up to letter case
MatchesIgnoringCase(txt, w) ==
    /\ Len(txt) = Len(w)
    /\ \A i \in 1..Len(w) : txt[i] \in CaseForms(w[i])

\* C5: after FlexBool.UnmarshalJSON, Val is true exactly when Txt is, up to
\* letter case, one of the tokens of the vocabulary; any other Txt gives false.
C5_ValIffVocabulary ==
    (kind = "FlexBool" /\ arg # NoBytes)
    => (f.Val <=> \E w \in Vocabulary : MatchesIgnoringCase(f.Txt, w))

C5_Witness ==
    /\ kind = "FlexBool"
    /\ arg = <<"\"", "E", "N", "A", "B", "L", "E", "D", "\"">>
    /\ f.Txt = <<"E", "N", "A", "B", "L", "E", "D">>
    /\ f.Val = TRUE

\* b without one double quote at its start and one at its end, where present
StripOneLayer(b) ==
    LET a == IF b # << >> /\ Head(b) = "\"" THEN Tail(b) ELSE b
    IN  IF a # << >> /\ a[Len(a)] = "\"" THEN SubSeq(a, 1, Len(a) - 1) ELSE a

\* C6: FlexBool.UnmarshalJSON sets Txt to the input without a single layer
\* of surrounding double quotes (at most one removed at each end), every
\* other character, further quotes included, left in place.
C6_SingleLayerStripped ==
    (kind = "FlexBool" /\ arg # NoBytes) => f.Txt = StripOneLayer(arg)

(***************************************************************************)
(* Properties of FlexInt.UnmarshalJSON, checked under SpecDecode.          *)
(***************************************************************************)
\* b is a JSON text: one value between optional white space
IsJson(b) ==
    /\ ScanValue(b, SkipSpace(b, 1)).end # 0
    /\ SkipSpace(b, ScanValue(b, SkipSpace(b, 1)).end) = Len(b) + 1

\* the kind of JSON value b is
JsonKind(b) ==
    IF ~IsJson(b) THEN "invalid"
    ELSE LET c == b[SkipSpace(b, 1)]
         IN  CASE c = "\"" -> "string"
               [] c = "{"  -> "object"
               [] c = "["  -> "array"
               [] c = "n"  -> "null"
               [] c \in {"t", "f"} -> "boolean"
               [] OTHER    -> "number"

\* the string the JSON string b stands for
JsonStringOf(b) == JsonUnmarshal(b).str

\* the value of the conversion r, zero when it reported an error
ParsedOrZero(r) == IF r.err = "nil" THEN r.val ELSE Zero

\* C7: for a JSON string S the call returns nil, Txt is S, and Val is the
\* parse of S when S parses and zero whenever the conversion reports an error.
C7_StringParsedOrZero ==
    (kind = "FlexInt" /\ arg # NoBytes /\ JsonKind(arg) = "string")
    => /\ err = NilErr
       /\ f.Txt = JsonStringOf(arg)
       /\ f.Val = ParsedOrZero(ParseFloat(JsonStringOf(arg)))

\* C8: a JSON object, array or boolean gives the error that wraps
\* errCannotUnmarshalFlexInt with the raw bytes; a JSON number, string or
\* null gives no error.
C8_ErrorIffOtherKind ==
    (kind = "FlexInt" /\ arg # NoBytes)
    => /\ JsonKind(arg) \in {"object", "array", "boolean"} => err = CannotUnmarshalFlexInt(arg)
       /\ JsonKind(arg) \in {"number", "string", "null"} => err = NilErr

\* Txt is a textual rendering of Val: it parses, without error, to Val
Renders(txt, val) == ParseFloat(txt) = [val |-> val, err |-> "nil"]

\* C9: after a call that returned nil on a JSON number, string or null, Txt
\* is a valid rendering of Val ("0" with Val 0 for null) and Val is the
\* best-effort parse of Txt, zero when the conversion of Txt reports an
\* error.  A Txt that is no numeral renders no number: the rendering is
\* asked of a number's and null's Txt and of every Txt that parses.
C9_Invariant ==
    (kind = "FlexInt" /\ arg # NoBytes /\ err = NilErr)
    => /\ JsonKind(arg) \in {"number", "string", "null"}
       /\ JsonKind(arg) \in {"number", "null"} => Renders(f.Txt, f.Val)
       /\ ParseFloat(f.Txt).err = "nil" => Renders(f.Txt, f.Val)
       /\ JsonKind(arg) = "null" => (f.Txt = <<"0">> /\ f.Val = Zero)
       /\ f.Val = ParsedOrZero(ParseFloat(f.Txt))

(***************************************************************************)
(* Property of both decoders, checked under SpecReuse.                     *)
(***************************************************************************)
\* C10: whatever calls were made on a receiver, it holds what the most
\* recent call that returned nil would leave in a zero-value receiver, and a
\* FlexInt call that returns an error leaves Val and Txt as they were.
C10_NoStateCarried ==
    /\ lastOk # NoBytes => f = UnmarshalJSON(kind, ZeroOf(kind), lastOk).f
    /\ lastOk = NoBytes => f = ZeroOf(kind)
    /\ err # NilErr => f = fPrev

C10_Witness ==
    /\ kind = "FlexInt"
    /\ err # NilErr
    /\ lastOk = <<"\"", "a", "\\", "\"", "b", "\"">>
    /\ f = [Val |-> Zero, Txt |-> <<"a", "\"", "b">>]
    /\ fPrev = f

====
